---- MODULE Spec2Model ----
(***************************************************************************)
(* RWKV forward pass of EasyDel/modules/rwkv/modelling_rwkv_flax.py:       *)
(* the WKV kernel (rwkv_linear_attention), the token shift of the two      *)
(* sublayers, the per-layer state container and the block stack.           *)
(*                                                                         *)
(* Numbers.  Every array element is a fixed-point number with FracBits     *)
(* fractional bits (the integer n stands for n / One), rounded towards     *)
(* minus infinity, saturating to PosInf / NegInf beyond FloatMax, with a   *)
(* NaN for 0/0 and Inf-Inf.  exp is the base-2 exponential of the floor of *)
(* its argument: monotone, exp(0) = 1, and it underflows to 0 below        *)
(* -FracBits as float32 does below about -103.                             *)
(*                                                                         *)
(* Arrays.  The batch axis is data-parallel and is dropped (B = 1).  A     *)
(* [T, C] array is a sequence of T rows, each a sequence of C numbers; a   *)
(* [C] array is one row.  A state tensor [C, L] is a sequence of L rows,   *)
(* row i being the slice [:, :, i] of the source.  A statement is read as  *)
(* the array operation it denotes: the in-place slice assignment           *)
(* x[...] = v is the array x with that slice replaced, x.float() is x,     *)
(* jnp.zeros of a shape is the zero array of that shape.  jnp.pad is     *)
(* applied with the pad_width the source passes.                           *)
(***************************************************************************)
EXTENDS Integers, Sequences, FiniteSets, TLC

\* ---------------------------------------------------------------- bounds
FracBits == 2
MaxKernelT == 3
MaxKernelCalls == 2

RECURSIVE Pow2(_)
Pow2(n) == IF n <= 0 THEN 1 ELSE 2 * Pow2(n - 1)

One == Pow2(FracBits)

\* ------------------------------------------------------- float32 numbers
FloatMax == 32000
PosInf == FloatMax + 1
NegInf == 0 - PosInf
NaN == FloatMax + 2
\* Python's None for an optional state
None == [present |-> FALSE]

\* the element of a one-element set: {e : x \in {v}} evaluates v once and
\* binds x to its value, as a Python assignment x = v does
TheOne(S) == CHOOSE x \in S : TRUE

IsFinite(x) == x >= 0 - FloatMax /\ x <= FloatMax

Round(x) == IF x > FloatMax THEN PosInf ELSE IF x < 0 - FloatMax THEN NegInf ELSE x

Sign(x) == IF x > 0 THEN 1 ELSE IF x < 0 THEN 0 - 1 ELSE 0

FNeg(a) == IF a = NaN THEN NaN ELSE 0 - a

FAdd(a, b) ==
    IF a = NaN \/ b = NaN THEN NaN
    ELSE IF (a = PosInf /\ b = NegInf) \/ (a = NegInf /\ b = PosInf) THEN NaN
    ELSE IF a = PosInf \/ a = NegInf THEN a
    ELSE IF b = PosInf \/ b = NegInf THEN b
    ELSE Round(a + b)

FSub(a, b) == FAdd(a, FNeg(b))

FMul(a, b) ==
    IF a = NaN \/ b = NaN THEN NaN
    ELSE IF ~IsFinite(a) \/ ~IsFinite(b)
         THEN (IF a = 0 \/ b = 0 THEN NaN
               ELSE IF Sign(a) * Sign(b) > 0 THEN PosInf ELSE NegInf)
    ELSE Round((a * b) \div One)

FDiv(a, b) ==
    IF a = NaN \/ b = NaN THEN NaN
    ELSE IF b = 0 THEN (IF a = 0 THEN NaN ELSE IF a > 0 THEN PosInf ELSE NegInf)
    ELSE IF ~IsFinite(b) THEN (IF IsFinite(a) THEN 0 ELSE NaN)
    ELSE IF ~IsFinite(a) THEN (IF Sign(a) * Sign(b) > 0 THEN PosInf ELSE NegInf)
    ELSE IF b > 0 THEN Round((a * One) \div b)
    ELSE Round(((0 - a) * One) \div (0 - b))

FMaximum(a, b) == IF a = NaN \/ b = NaN THEN NaN ELSE IF a >= b THEN a ELSE b

\* jnp.exp: largest argument (in whole units) whose exponential is finite
ExpMaxArg == 10

Floor(x) == x \div One

exp(x) ==
    IF x = NaN THEN NaN
    ELSE IF x = PosInf THEN PosInf
    ELSE IF x = NegInf THEN 0
    ELSE IF Floor(x) > ExpMaxArg THEN PosInf
    ELSE IF Floor(x) > 0 THEN Round(One * Pow2(Floor(x)))
    ELSE IF Floor(x) < 0 - FracBits THEN 0
    ELSE Pow2(FracBits + Floor(x))

\* --------------------------------------------------------- the WKV kernel
\* max_state of the kernel's own default accumulator: zeros - 1e38
KernelSentinel == 0 - 30000
\* state[4] of the container the model forward creates: zeros - 1e30
FactorySentinel == 0 - 20000

\* lines 44-49: the accumulator the scan starts from
InitialAccumulator(st) ==
    IF ~st.present
    THEN [num |-> 0, den |-> 0, max |-> KernelSentinel]
    ELSE [num |-> st.num, den |-> st.den, max |-> st.max]

\* line 51 without the exponential: the parameter itself, negated
NegExpDecay_NoExp(td) == FNeg(td)

\* line 51
NegExpDecay(td) == FNeg(exp(td))

\* lines 57-62 with the running maximum left as it was (line 57 dropped)
WkvOutput_StaleMax(acc, decay, tf, k, v) ==
    LET max_for_output == acc.max
        a1 == FSub(acc.max, max_for_output)
        a2 == FSub(FAdd(k, tf), max_for_output)
        e1 == exp(a1)
        e2 == exp(a2)
        numerator == FAdd(FMul(e1, acc.num), FMul(e2, v))
        denominator == FAdd(FMul(e1, acc.den), e2)
    IN  [out |-> FDiv(numerator, denominator),
         numerator |-> numerator,
         denominator |-> denominator,
         args |-> <<a1, a2>>]

\* lines 57-62: the output of one timestep; args are the two arguments
\* handed to jnp.exp
WkvOutput(acc, decay, tf, k, v) ==
    LET max_for_output == FMaximum(acc.max, FAdd(k, tf))
        a1 == FSub(acc.max, max_for_output)
        a2 == FSub(FAdd(k, tf), max_for_output)
        e1 == exp(a1)
        e2 == exp(a2)
        numerator == FAdd(FMul(e1, acc.num), FMul(e2, v))
        denominator == FAdd(FMul(e1, acc.den), e2)
    IN  [out |-> FDiv(numerator, denominator),
         numerator |-> numerator,
         denominator |-> denominator,
         args |-> <<a1, a2>>]

\* lines 64-69 with line 68 losing its e2 term
WkvUpdate_DropE2(acc, decay, tf, k, v) ==
    LET max_for_state == FMaximum(FAdd(acc.max, decay), k)
        a1 == FSub(FAdd(acc.max, decay), max_for_state)
        a2 == FSub(k, max_for_state)
        e1 == exp(a1)
        e2 == exp(a2)
    IN  [num |-> FAdd(FMul(e1, acc.num), FMul(e2, v)),
         den |-> FMul(e1, acc.den),
         max |-> max_for_state,
         args |-> <<a1, a2>>]

\* lines 64-69 with the carried terms e1 * num_state and e1 * den_state
\* dropped: an accumulator that keeps the current timestep only
WkvUpdate_Forget(acc, decay, tf, k, v) ==
    LET max_for_state == FMaximum(FAdd(acc.max, decay), k)
        a1 == FSub(FAdd(acc.max, decay), max_for_state)
        a2 == FSub(k, max_for_state)
        e2 == exp(a2)
    IN  [num |-> FMul(e2, v),
         den |-> e2,
         max |-> max_for_state,
         args |-> <<a1, a2>>]

\* lines 64-69: the accumulator after one timestep
WkvUpdate(acc, decay, tf, k, v) ==
    LET max_for_state == FMaximum(FAdd(acc.max, decay), k)
        a1 == FSub(FAdd(acc.max, decay), max_for_state)
        a2 == FSub(k, max_for_state)
        e1 == exp(a1)
        e2 == exp(a2)
    IN  [num |-> FAdd(FMul(e1, acc.num), FMul(e2, v)),
         den |-> FAdd(FMul(e1, acc.den), e2),
         max |-> max_for_state,
         args |-> <<a1, a2>>]

Acc(u) == [num |-> u.num, den |-> u.den, max |-> u.max]

\* lines 53-69 for one channel: the scan from timestep i on
RECURSIVE WkvScan(_, _, _, _, _, _, _)
WkvScan(acc, decay, tf, ks, vs, i, outs) ==
    IF i > Len(ks) THEN [output |-> outs, acc |-> acc]
    ELSE TheOne({WkvScan(next, decay, tf, ks, vs, i + 1, Append(outs, o)) :
                    next \in {Acc(WkvUpdate(acc, decay, tf, ks[i], vs[i]))},
                    o \in {WkvOutput(acc, decay, tf, ks[i], vs[i]).out}})

\* lines 71-74 with the condition of line 71 dropped: a triple is always
\* handed back
KernelReturnsState_Always(st, ret) == TRUE

\* lines 71-74: what the kernel hands back as state
KernelReturnsState(st, ret) == ret \/ st.present

\* rwkv_linear_attention for one channel
rwkv_linear_attention_1(td, tf, ks, vs, st, ret) ==
    LET r == WkvScan(InitialAccumulator(st), NegExpDecay(td), tf, ks, vs, 1, <<>>)
    IN  [output |-> r.output,
         state |-> IF KernelReturnsState(st, ret)
                   THEN [present |-> TRUE, num |-> r.acc.num, den |-> r.acc.den, max |-> r.acc.max]
                   ELSE None]

\* ------------------------------------------------ the kernel, step by step
VARIABLES kpc, time_decay, time_first, key, value, layer_state, return_state,
          current_index, num_state, den_state, max_state, output,
          neg_decay, exp_args, denominator, kernel_result, kernel_calls, kernel_steps

kvars == <<kpc, time_decay, time_first, key, value, layer_state, return_state,
           current_index, num_state, den_state, max_state, output,
           neg_decay, exp_args, denominator, kernel_result, kernel_calls, kernel_steps>>

\* the state of the model forward (below)
VARIABLES pc, config, caller_state, state, supplied, created, use_cache, inputs,
          hidden_states, idx, error, last, block_out, call_attentions, attentions,
          history, calls

mvars == <<pc, config, caller_state, state, supplied, created, use_cache, inputs,
           hidden_states, idx, error, last, block_out, call_attentions, attentions,
           history, calls>>

vars == <<kvars, mvars>>

\* the inputs the kernel is run on
KernelKeys == {0 - One, One}
KernelValues == {0 - One, 2 * One}
TimeDecays == {0 - (FracBits + 1) * One, 0, One}
TimeFirsts == {0, One}

SeqsUpTo(S, n) == UNION {[1..m -> S] : m \in 1..n}

\* the layer slice of a container fresh from the model forward (lines 477-485)
FreshLayerState == [present |-> TRUE, num |-> 0, den |-> 0, max |-> FactorySentinel]

\* the kernel before its first call, with parameters td and tf
KernelIdle(td, tf) ==
    /\ kpc = "idle"
    /\ time_decay = td
    /\ time_first = tf
    /\ key = <<>>
    /\ value = <<>>
    /\ layer_state = None
    /\ return_state = FALSE
    /\ current_index = 0
    /\ num_state = 0
    /\ den_state = 0
    /\ max_state = 0
    /\ output = <<>>
    /\ neg_decay = 0
    /\ exp_args = <<>>
    /\ denominator = None
    /\ kernel_result = None
    /\ kernel_calls = 0
    /\ kernel_steps = 0

\* lines 40-51: the call, with no state, a fresh state or the state the
\* previous call returned; a session scans at most MaxKernelT timesteps
KernelEnter ==
    /\ kpc \in {"idle", "returned"}
    /\ kernel_calls < MaxKernelCalls
    /\ kernel_steps < MaxKernelT
    /\ \E ks \in SeqsUpTo(KernelKeys, MaxKernelT - kernel_steps), st \in {None, FreshLayerState, kernel_result},
          ret \in BOOLEAN :
        \E vs \in [1..Len(ks) -> KernelValues] :
            /\ key' = ks
            /\ value' = vs
            /\ layer_state' = st
            /\ return_state' = ret
            /\ num_state' = InitialAccumulator(st).num
            /\ den_state' = InitialAccumulator(st).den
            /\ max_state' = InitialAccumulator(st).max
    /\ output' = <<>>
    /\ neg_decay' = NegExpDecay(time_decay)
    /\ exp_args' = <<time_decay>>
    /\ denominator' = None
    /\ current_index' = 0
    /\ kernel_calls' = kernel_calls + 1
    /\ kpc' = "scan"
    /\ UNCHANGED <<time_decay, time_first, kernel_result, kernel_steps>>
    /\ UNCHANGED mvars

\* lines 53-69: one iteration of the loop
KernelStep ==
    /\ kpc = "scan"
    /\ current_index < Len(key)
    /\ LET acc == [num |-> num_state, den |-> den_state, max |-> max_state]
           k == key[current_index + 1]
           v == value[current_index + 1]
           o == WkvOutput(acc, neg_decay, time_first, k, v)
           u == WkvUpdate(acc, neg_decay, time_first, k, v)
       IN  /\ output' = Append(output, o.out)
           /\ denominator' = [present |-> TRUE, den |-> o.denominator]
           /\ exp_args' = o.args \o u.args
           /\ num_state' = u.num
           /\ den_state' = u.den
           /\ max_state' = u.max
    /\ current_index' = current_index + 1
    /\ kernel_steps' = kernel_steps + 1
    /\ UNCHANGED <<kpc, time_decay, time_first, key, value, layer_state, return_state,
                   neg_decay, kernel_result, kernel_calls>>
    /\ UNCHANGED mvars

\* lines 71-74
KernelReturn ==
    /\ kpc = "scan"
    /\ current_index = Len(key)
    /\ kernel_result' = IF KernelReturnsState(layer_state, return_state)
                        THEN [present |-> TRUE, num |-> num_state, den |-> den_state,
                              max |-> max_state]
                        ELSE None
    /\ kpc' = "returned"
    /\ UNCHANGED <<time_decay, time_first, key, value, layer_state, return_state,
                   current_index, num_state, den_state, max_state, output,
                   neg_decay, exp_args, denominator, kernel_calls, kernel_steps>>
    /\ UNCHANGED mvars

KernelNext ==
    \/ KernelEnter
    \/ KernelStep
    \/ KernelReturn


\* ------------------------------------------------------------- arrays
\* config.hidden_size (= attention_hidden_size = intermediate_size) and
\* config.num_hidden_layers of the model instance
Channels == 2
NumLayers == 2

\* what a failed array operation (shapes that do not broadcast, a pad_width
\* of the wrong rank) leaves in place of an array
ShapeError == <<>>

IsError(a) == a = ShapeError

Zeros(n) == [c \in 1..n |-> 0]

Full(n, x) == [c \in 1..n |-> x]

\* NumPy broadcasting of two axis lengths; 0 when they do not broadcast
BroadcastLen(m, n) == IF m = n THEN m ELSE IF m = 1 THEN n ELSE IF n = 1 THEN m ELSE 0

\* elementwise Op over two [T, C] arrays, with broadcasting
Elementwise(Op(_, _), a, b) ==
    IF IsError(a) \/ IsError(b) THEN ShapeError
    ELSE LET rows == BroadcastLen(Len(a), Len(b))
             cols == BroadcastLen(Len(a[1]), Len(b[1]))
         IN  IF rows = 0 \/ cols = 0 THEN ShapeError
             ELSE [t \in 1..rows |-> [c \in 1..cols |->
                     Op(a[IF Len(a) = 1 THEN 1 ELSE t][IF Len(a[1]) = 1 THEN 1 ELSE c],
                        b[IF Len(b) = 1 THEN 1 ELSE t][IF Len(b[1]) = 1 THEN 1 ELSE c])]]

Mul(a, b) == Elementwise(FMul, a, b)

Add(a, b) == Elementwise(FAdd, a, b)

\* hidden * mix + shifted * (1 - mix), mix a [C] parameter
TimeMix(hidden, shifted, mix) ==
    Add(Mul(hidden, <<mix>>), Mul(shifted, <<[c \in DOMAIN mix |-> FSub(One, mix[c])]>>))

\* jnp.pad(a, pad_width, mode="constant", constant_values=0) of a
\* [B, T, C] array: one (before, after) pair per axis, batch axis first
jnp_pad(a, pad_width) ==
    IF IsError(a) \/ Len(pad_width) # 3 THEN ShapeError
    ELSE LET cols == pad_width[3][1] + Len(a[1]) + pad_width[3][2]
             rows == pad_width[2][1] + Len(a) + pad_width[2][2]
         IN  [t \in 1..rows |-> [c \in 1..cols |->
                 IF /\ t > pad_width[2][1] /\ t <= pad_width[2][1] + Len(a)
                    /\ c > pad_width[3][1] /\ c <= pad_width[3][1] + Len(a[1])
                 THEN a[t - pad_width[2][1]][c - pad_width[3][1]]
                 ELSE 0]]

\* a[:, 0] = row
SetFirst(a, row) ==
    IF IsError(a) THEN ShapeError
    ELSE IF BroadcastLen(Len(row), Len(a[1])) # Len(a[1]) THEN ShapeError
    ELSE [a EXCEPT ![1] = [c \in 1..Len(a[1]) |-> row[IF Len(row) = 1 THEN 1 ELSE c]]]

RECURSIVE SumTo(_, _)
SumTo(f, n) == IF n = 0 THEN 0 ELSE FAdd(SumTo(f, n - 1), f[n])

\* nn.Dense(use_bias=False): x @ kernel, kernel a [C, C] matrix
Dense(kernel, a) ==
    IF IsError(a) THEN ShapeError
    ELSE IF Len(a[1]) # Len(kernel) THEN ShapeError
    ELSE [t \in 1..Len(a) |-> [o \in 1..Len(kernel[1]) |->
            SumTo([i \in 1..Len(kernel) |-> FMul(a[t][i], kernel[i][o])], Len(kernel))]]

\* nn.LayerNorm with its initial scale 1 and bias 0: each row has its mean
\* removed (the division by the deviation is not modelled)
LayerNorm(a) ==
    IF IsError(a) THEN ShapeError
    ELSE [t \in 1..Len(a) |->
            LET mean == FDiv(SumTo(a[t], Len(a[t])), Len(a[t]) * One)
            IN  [c \in 1..Len(a[t]) |-> FSub(a[t][c], mean)]]

sigmoid(x) == FDiv(One, FAdd(One, exp(FNeg(x))))

relu(x) == FMaximum(x, 0)

square(x) == FMul(x, x)

Map(Op(_), a) ==
    IF IsError(a) THEN ShapeError
    ELSE [t \in 1..Len(a) |-> [c \in 1..Len(a[t]) |-> Op(a[t][c])]]

\* ---------------------------------------------------- learned parameters
\* fixed for the lifetime of the instance; they differ by layer and channel
TimeMixKey(layer_id) == [c \in 1..Channels |-> IF (c + layer_id) % 2 = 0 THEN One ELSE One \div 2]

TimeMixValue(layer_id) == [c \in 1..Channels |-> IF (c + layer_id) % 2 = 0 THEN One \div 2 ELSE 0]

TimeMixReceptance(layer_id) == [c \in 1..Channels |-> One \div 2]

TimeDecay(layer_id) == [c \in 1..Channels |-> IF (c + layer_id) % 2 = 0 THEN One ELSE 0]

TimeFirst(layer_id) == [c \in 1..Channels |-> IF c % 2 = 0 THEN One ELSE 0]

UpperKernel == [i \in 1..Channels |-> [o \in 1..Channels |->
                  IF i = o THEN One ELSE IF i < o THEN One \div 2 ELSE 0]]

LowerKernel == [i \in 1..Channels |-> [o \in 1..Channels |->
                  IF i = o THEN One ELSE IF i > o THEN 0 - One ELSE 0]]

IdentityKernel == [i \in 1..Channels |-> [o \in 1..Channels |-> IF i = o THEN One ELSE 0]]

\* ------------------------------------------------------ state container
\* state[k][:, :, layer_id]
Slice(st, k, layer_id) == st.t[k + 1][layer_id + 1]

\* state[k][:, :, 0] = row, whatever the layer
SetSlice_Layer0(st, k, layer_id, row) == [st EXCEPT !.t[k + 1][1] = row]

\* state[k][:, :, layer_id] = row
SetSlice(st, k, layer_id, row) == [st EXCEPT !.t[k + 1][layer_id + 1] = row]

\* lines 477-485 with the sentinel subtracted from state[3] instead of state[4]
NewState_SentinelInDen ==
    [present |-> TRUE,
     t |-> [i \in 1..5 |-> [l \in 1..NumLayers |->
              IF i = 4 THEN Full(Channels, FactorySentinel) ELSE Zeros(Channels)]]]

\* lines 477-485: five tensors of shape (batch, hidden_size, num_hidden_layers)
NewState ==
    [present |-> TRUE,
     t |-> [i \in 1..5 |-> [l \in 1..NumLayers |->
              IF i = 5 THEN Full(Channels, FactorySentinel) ELSE Zeros(Channels)]]]

\* ------------------------------------------------ self-attention sublayer
\* line 159: the shortcut path
AttentionShortcut(st, layer_id) == <<Slice(st, 1, layer_id)>>

\* lines 161-168: the padded-sequence path
AttentionPadded(hidden, st, layer_id) ==
    TheOne({IF st.present THEN SetFirst(padded, Slice(st, 1, layer_id)) ELSE padded :
               padded \in {jnp_pad(hidden, <<<<0, 0>>, <<1, 0>>, <<0, 1>>>>)}})

\* lines 158-168 without the shortcut of lines 158-159
AttentionShifted_AlwaysPad(hidden, st, layer_id) == AttentionPadded(hidden, st, layer_id)

\* lines 158-168: the shifted sequence of the attention sublayer
AttentionShifted(hidden, st, layer_id) ==
    IF Len(hidden) = 1 /\ st.present
    THEN AttentionShortcut(st, layer_id)
    ELSE AttentionPadded(hidden, st, layer_id)

\* lines 169-182, shifted being the shifted sequence and mk, mv, mr the
\* three mixes of lines 169-171
KeyValueOf(hidden, st, layer_id, shifted, mk, mv, mr) ==
    TheOne({[error |-> IsError(shifted) \/ IsError(k) \/ IsError(v) \/ IsError(r),
             shifted |-> shifted,
             receptance |-> r,
             key |-> k,
             value |-> v,
             state |-> IF st.present /\ ~(IsError(shifted) \/ IsError(k) \/ IsError(v) \/ IsError(r))
                       THEN SetSlice(st, 1, layer_id, hidden[Len(hidden)])
                       ELSE st] :
               k \in {Dense(UpperKernel, mk)},
               v \in {Dense(LowerKernel, mv)},
               r \in {Map(sigmoid, TheOne({Dense(IdentityKernel, m) : m \in {mr}}))}})

\* lines 157-182
extract_key_value(hidden, st, layer_id) ==
    TheOne({TheOne({KeyValueOf(hidden, st, layer_id, shifted, mk, mv, mr) :
                       mk \in {TimeMix(hidden, shifted, TimeMixKey(layer_id))},
                       mv \in {TimeMix(hidden, shifted, TimeMixValue(layer_id))},
                       mr \in {TimeMix(hidden, shifted, TimeMixReceptance(layer_id))}}) :
               shifted \in {AttentionShifted(hidden, st, layer_id)}})

\* rwkv_linear_attention over all channels: ks, vs are [T, C] arrays, td, tf
\* [C] parameters, lst the layer's (num, den, max) slices or None
rwkv_linear_attention(td, tf, ks, vs, lst, ret) ==
    TheOne({[output |-> [t \in 1..Len(ks) |-> [c \in 1..Len(ks[1]) |-> chan[c].output[t]]],
             state |-> IF KernelReturnsState(lst, ret)
                       THEN [present |-> TRUE,
                             num |-> [c \in 1..Len(ks[1]) |-> chan[c].state.num],
                             den |-> [c \in 1..Len(ks[1]) |-> chan[c].state.den],
                             max |-> [c \in 1..Len(ks[1]) |-> chan[c].state.max]]
                       ELSE None] :
               chan \in {[c \in 1..Len(ks[1]) |->
                           rwkv_linear_attention_1(
                               td[c], tf[c],
                               [t \in 1..Len(ks) |-> ks[t][c]],
                               [t \in 1..Len(vs) |-> vs[t][c]],
                               IF lst.present
                               THEN [present |-> TRUE, num |-> lst.num[c], den |-> lst.den[c],
                                     max |-> lst.max[c]]
                               ELSE None,
                               ret)]}})

\* line 191
LayerState(st, layer_id) ==
    IF st.present
    THEN [present |-> TRUE, num |-> Slice(st, 2, layer_id), den |-> Slice(st, 3, layer_id),
          max |-> Slice(st, 4, layer_id)]
    ELSE None

\* lines 201-204
WriteBack(st, layer_id, lst) ==
    SetSlice(SetSlice(SetSlice(st, 2, layer_id, lst.num), 3, layer_id, lst.den),
             4, layer_id, lst.max)

\* lines 201-206, e being what extract_key_value returned and r what the
\* kernel returned
AttentionOutput(st, layer_id, e, r) ==
    IF r.state.present /\ ~e.state.present
    THEN [error |-> "TypeError", out |-> ShapeError, state |-> st,
          shifted |-> e.shifted, kernel_state |-> r.state]
    ELSE [error |-> "",
          out |-> TheOne({Dense(UpperKernel, gated) : gated \in {Mul(e.receptance, r.output)}}),
          state |-> IF r.state.present THEN WriteBack(e.state, layer_id, r.state)
                    ELSE e.state,
          shifted |-> e.shifted,
          kernel_state |-> r.state]

\* lines 190-206, e being what extract_key_value returned
AttentionOn(st, use_cache_, layer_id, e) ==
    IF e.error
    THEN [error |-> "ShapeMismatch", out |-> ShapeError, state |-> st,
          shifted |-> e.shifted, kernel_state |-> None]
    ELSE TheOne({AttentionOutput(st, layer_id, e, r) :
                    r \in {rwkv_linear_attention(TimeDecay(layer_id), TimeFirst(layer_id),
                                                 e.key, e.value,
                                                 LayerState(e.state, layer_id), use_cache_)}})

\* lines 184-206: FlaxRwkvSelfAttention.__call__
SelfAttention(hidden, st, use_cache_, layer_id) ==
    TheOne({AttentionOn(st, use_cache_, layer_id, e) :
               e \in {extract_key_value(hidden, st, layer_id)}})

\* ------------------------------------------------ channel-mixing sublayer
\* line 268: the shortcut path
FeedForwardShortcut(st, layer_id) == <<Slice(st, 0, layer_id)>>

\* lines 270-277: the padded-sequence path
FeedForwardPadded(hidden, st, layer_id) ==
    TheOne({IF st.present THEN SetFirst(padded, Slice(st, 0, layer_id)) ELSE padded :
               padded \in {jnp_pad(hidden, <<<<0, 0>>, <<0, 0>>, <<1, 0>>, <<0, 1>>>>)}})

\* lines 267-277: the shifted sequence of the channel-mixing sublayer
FeedForwardShifted(hidden, st, layer_id) ==
    IF Len(hidden) = 1 /\ st.present
    THEN FeedForwardShortcut(st, layer_id)
    ELSE FeedForwardPadded(hidden, st, layer_id)

squared_relu(x) == square(relu(x))

\* lines 281-288, k, v and r being key, value and receptance
FeedForwardOutput(hidden, st, layer_id, shifted, k, v, r) ==
    IF IsError(shifted) \/ IsError(k) \/ IsError(v) \/ IsError(r)
    THEN [error |-> "ShapeMismatch", out |-> ShapeError, state |-> st, shifted |-> shifted]
    ELSE [error |-> "",
          out |-> Mul(r, v),
          state |-> IF st.present THEN SetSlice(st, 0, layer_id, hidden[Len(hidden)]) ELSE st,
          shifted |-> shifted]

\* lines 278-288, shifted being the shifted sequence
FeedForwardOn(hidden, st, layer_id, shifted) ==
    TheOne({TheOne({FeedForwardOutput(hidden, st, layer_id, shifted, k,
                                      Dense(UpperKernel, k), r) :
                       k \in {Map(squared_relu, TheOne({Dense(LowerKernel, m) : m \in {mk}}))},
                       r \in {Map(sigmoid, TheOne({Dense(IdentityKernel, m) : m \in {mr}}))}}) :
               mk \in {TimeMix(hidden, shifted, TimeMixKey(layer_id))},
               mr \in {TimeMix(hidden, shifted, TimeMixReceptance(layer_id))}})

\* lines 262-288: FlaxRwkvFeedForward.__call__
FeedForward(hidden, st, layer_id) ==
    TheOne({FeedForwardOn(hidden, st, layer_id, shifted) :
               shifted \in {FeedForwardShifted(hidden, st, layer_id)}})

\* ------------------------------------------------------------- the block
\* lines 346-351, h0 being the block's input after pre_ln and x its ln1
AttentionResidual(h0, x, st, use_cache_, layer_id) ==
    TheOne({[error |-> a.error,
             input |-> x,
             attention |-> a.out,
             shifted |-> a.shifted,
             kernel_state |-> a.kernel_state,
             hidden |-> IF a.error = "" THEN Add(h0, a.out) ELSE ShapeError,
             state |-> a.state] :
               a \in {SelfAttention(x, st, use_cache_, layer_id)}})

\* lines 343-351: pre_ln on layer 0, ln1, attention, residual
BlockAttention(hidden, st, use_cache_, layer_id) ==
    TheOne({TheOne({AttentionResidual(h0, x, st, use_cache_, layer_id) :
                       x \in {LayerNorm(h0)}}) :
               h0 \in {IF layer_id = 0 THEN LayerNorm(hidden) ELSE hidden}})

\* lines 353-357: ln2, channel mixing, residual
BlockFeedForward(hidden, st, layer_id) ==
    TheOne({TheOne({[error |-> f.error,
                     input |-> x,
                     shifted |-> f.shifted,
                     hidden |-> IF f.error = "" THEN Add(hidden, f.out) ELSE ShapeError,
                     state |-> f.state] :
                       f \in {FeedForward(x, st, layer_id)}}) :
               x \in {LayerNorm(hidden)}})

\* line 387
layers_are_rescaled == FALSE

\* lines 409-414: what the stack passes on after block number idx_ (0-based)
Rescale(hidden, rescale_every, idx_) ==
    IF layers_are_rescaled /\ rescale_every > 0 /\ (idx_ + 1) % rescale_every = 0
    THEN Map(LAMBDA x : FDiv(x, 2 * One), hidden)
    ELSE hidden

\* lines 402 and 466
ResolveUseCache(arg, deterministic, config_use_cache) ==
    IF arg # "None" THEN arg = "True"
    ELSE IF ~deterministic THEN config_use_cache ELSE FALSE

\* ------------------------------------------------------ the model forward
MaxT == 2
MaxCalls == 3
Vocabulary == {1, 2}
RescaleEvery == {0, 1, 2}

\* nn.Embed: the row of a token
Embed(tokens) == [t \in 1..Len(tokens) |-> [c \in 1..Channels |-> tokens[t] * c * One]]

NoInvocation ==
    [sub |-> "none", layer |-> 0, hidden |-> ShapeError, shifted |-> ShapeError,
     before |-> None, kernel_state |-> None, out |-> ShapeError, error |-> ""]

NoAttentions == [l \in 1..NumLayers |-> <<>>]

\* the model instance before its first call, with configuration cfg
ModelIdle(cfg) ==
    /\ pc = "idle"
    /\ config = cfg
    /\ caller_state = None
    /\ state = None
    /\ supplied = FALSE
    /\ created = FALSE
    /\ use_cache = FALSE
    /\ inputs = <<>>
    /\ hidden_states = ShapeError
    /\ idx = 0
    /\ error = ""
    /\ last = NoInvocation
    /\ block_out = ShapeError
    /\ call_attentions = NoAttentions
    /\ attentions = NoAttentions
    /\ history = <<>>
    /\ calls = 0

\* the caller's container is mutated in place when it is the one in use
Alias(new_state) == IF supplied THEN new_state ELSE caller_state

\* lines 469-472: both or neither of input_ids and inputs_embeds
ModelCallInvalid ==
    /\ pc \in {"idle", "returned", "raised"}
    /\ calls < MaxCalls
    /\ \E tokens \in SeqsUpTo(Vocabulary, MaxT) : inputs' = tokens
    /\ pc' = "raised"
    /\ error' = "ValueError"
    /\ calls' = calls + 1
    /\ supplied' = FALSE
    /\ created' = FALSE
    /\ state' = None
    /\ last' = NoInvocation
    /\ UNCHANGED <<config, caller_state, use_cache, hidden_states, idx, block_out,
                   call_attentions, attentions, history>>
    /\ UNCHANGED kvars

\* lines 462-487: one of input_ids and inputs_embeds; the caller passes its
\* container or None
ModelCall ==
    /\ pc \in {"idle", "returned", "raised"}
    /\ calls < MaxCalls
    /\ \E tokens \in SeqsUpTo(Vocabulary, MaxT), arg \in {"None", "True", "False"},
          deterministic \in BOOLEAN,
          pass \in (IF caller_state.present THEN BOOLEAN ELSE {FALSE}) :
        LET uc == ResolveUseCache(arg, deterministic, config.use_cache)
            st == IF pass THEN caller_state ELSE None
        IN  /\ inputs' = tokens
            /\ use_cache' = uc
            /\ supplied' = pass
            /\ created' = (uc /\ ~st.present)
            /\ state' = IF uc /\ ~st.present THEN NewState ELSE st
            /\ hidden_states' = Embed(tokens)
    /\ idx' = 0
    /\ pc' = "attention"
    /\ error' = ""
    /\ last' = NoInvocation
    /\ block_out' = ShapeError
    /\ call_attentions' = NoAttentions
    /\ calls' = calls + 1
    /\ UNCHANGED <<config, caller_state, attentions, history>>
    /\ UNCHANGED kvars

\* lines 405-407 and 343-351: block idx up to the attention residual
Attention ==
    /\ pc = "attention"
    /\ \E b \in {BlockAttention(hidden_states, state,
                                ResolveUseCache(IF use_cache THEN "True" ELSE "False",
                                                TRUE, config.use_cache),
                                idx)} :
           /\ last' = [sub |-> "attention", layer |-> idx, hidden |-> b.input,
                       shifted |-> b.shifted, before |-> state,
                       kernel_state |-> b.kernel_state, out |-> b.attention,
                       error |-> b.error]
           /\ error' = b.error
           /\ pc' = IF b.error = "" THEN "feed_forward" ELSE "raised"
           /\ hidden_states' = IF b.error = "" THEN b.hidden ELSE hidden_states
           /\ state' = b.state
           /\ caller_state' = Alias(b.state)
           /\ call_attentions' = IF b.error = ""
                                 THEN [call_attentions EXCEPT ![idx + 1] = b.attention]
                                 ELSE call_attentions
    /\ UNCHANGED <<config, supplied, created, use_cache, inputs, idx, block_out,
                   attentions, history, calls>>
    /\ UNCHANGED kvars

\* lines 353-357 and 409-414: the rest of block idx, then the rescale
FeedForwardStep ==
    /\ pc = "feed_forward"
    /\ \E b \in {BlockFeedForward(hidden_states, state, idx)} :
           /\ last' = [sub |-> "feed_forward", layer |-> idx, hidden |-> b.input,
                       shifted |-> b.shifted, before |-> state,
                       kernel_state |-> None, out |-> b.hidden, error |-> b.error]
           /\ error' = b.error
           /\ pc' = IF b.error # "" THEN "raised"
                    ELSE IF idx + 1 < NumLayers THEN "attention" ELSE "ln_out"
           /\ block_out' = b.hidden
           /\ hidden_states' = IF b.error = ""
                               THEN Rescale(b.hidden, config.rescale_every, idx)
                               ELSE hidden_states
           /\ state' = b.state
           /\ caller_state' = Alias(b.state)
           /\ idx' = IF b.error = "" THEN idx + 1 ELSE idx
    /\ UNCHANGED <<config, supplied, created, use_cache, inputs, call_attentions,
                   attentions, history, calls>>
    /\ UNCHANGED kvars

\* lines 500-513: ln_out and the return; the caller keeps the returned
\* state.  history and attentions record what has gone through the caller's
\* container: the tokens, and each layer's attention output per timestep
Return ==
    /\ pc = "ln_out"
    /\ hidden_states' = LayerNorm(hidden_states)
    /\ pc' = "returned"
    /\ caller_state' = state
    /\ history' = IF ~state.present THEN <<>>
                  ELSE IF supplied THEN history \o inputs ELSE inputs
    /\ attentions' = IF ~state.present THEN NoAttentions
                     ELSE IF supplied
                     THEN [l \in 1..NumLayers |-> attentions[l] \o call_attentions[l]]
                     ELSE call_attentions
    /\ last' = NoInvocation
    /\ UNCHANGED <<config, state, supplied, created, use_cache, inputs, idx, error,
                   block_out, call_attentions, calls>>
    /\ UNCHANGED kvars


\* the model forward, called again and again by one caller
Init ==
    /\ \E cfg \in [use_cache : BOOLEAN, rescale_every : RescaleEvery] : ModelIdle(cfg)
    /\ KernelIdle(0, 0)

Next ==
    \/ ModelCallInvalid
    \/ ModelCall
    \/ Attention
    \/ FeedForwardStep
    \/ Return

Spec == Init /\ [][Next]_vars

\* the kernel alone, on inputs drawn from KernelKeys and KernelValues
KernelInit ==
    /\ ModelIdle([use_cache |-> FALSE, rescale_every |-> 0])
    /\ \E td \in TimeDecays, tf \in TimeFirsts : KernelIdle(td, tf)

SpecKernel == KernelInit /\ [][KernelNext]_vars

\* ------------------------------------------- the forward as one function
\* lines 403-421: blocks i.. of the stack applied to hidden; atts collects
\* each layer's attention output
RECURSIVE BlockStack(_, _, _, _, _, _)
BlockStack(hidden, st, use_cache_, rescale_every, i, atts) ==
    IF i = NumLayers
    THEN [error |-> "", hidden |-> hidden, state |-> st, attentions |-> atts]
    ELSE TheOne({
           IF a.error # ""
           THEN [error |-> a.error, hidden |-> ShapeError, state |-> a.state, attentions |-> atts]
           ELSE TheOne({
                  IF f.error # ""
                  THEN [error |-> f.error, hidden |-> ShapeError, state |-> f.state,
                        attentions |-> atts]
                  ELSE TheOne({BlockStack(h, f.state, use_cache_, rescale_every, i + 1,
                                          Append(atts, a.attention)) :
                                  h \in {Rescale(f.hidden, rescale_every, i)}}) :
                  f \in {BlockFeedForward(a.hidden, a.state, i)}}) :
           a \in {BlockAttention(hidden, st, use_cache_, i)}})

\* lines 466-513: FlaxRwkvModule.__call__ on a token sequence
Forward(tokens, st, use_cache_, rescale_every) ==
    TheOne({[error |-> r.error,
             hidden |-> IF r.error = "" THEN LayerNorm(r.hidden) ELSE ShapeError,
             state |-> r.state,
             attentions |-> r.attentions] :
               r \in {BlockStack(Embed(tokens),
                                 IF use_cache_ /\ ~st.present THEN NewState ELSE st,
                                 use_cache_, rescale_every, 0, <<>>)}})

\* =================================================================== claims

\* a call of the model forward that got past the input check
InCall == pc \in {"attention", "feed_forward", "ln_out", "returned", "raised"} /\ error # "ValueError"

\* the shift-cache slot of the sublayer invoked last: state[1] for the
\* attention, state[0] for the channel mixing
LastSlot == IF last.sub = "attention" THEN 1 ELSE 0

\* C1: the calls that went through one container (T calls of length 1, or a
\* prefill and then a step) give the attention outputs per timestep and the
\* final (num, den, max) of every layer that one sequence-forward call over
\* the whole sequence gives, started with no state and caching requested.
C1_ChunkedEqualsWhole ==
    (pc = "returned" /\ state.present /\ Len(history) >= 1) =>
        \E whole \in {Forward(history, None, TRUE, config.rescale_every)} :
            /\ whole.error = ""
            /\ whole.attentions = attentions
            /\ \A l \in 0..(NumLayers - 1), k \in 2..4 :
                   Slice(whole.state, k, l) = Slice(state, k, l)

\* C2: in both sublayers the shifted sequence has the shape of the hidden
\* sequence, shifted[0] is the shift cache when a state is supplied and zero
\* otherwise, shifted[t] is hidden[t-1] for 0 < t < T, and for T = 1 with a
\* cache the shortcut path and the padded path give the same shifted[0].
C2_ShiftedSequence ==
    last.sub # "none" =>
        /\ ~IsError(last.shifted)
        /\ Len(last.shifted) = Len(last.hidden)
        /\ \A t \in DOMAIN last.shifted : Len(last.shifted[t]) = Len(last.hidden[1])
        /\ last.shifted[1] = (IF last.before.present
                              THEN Slice(last.before, LastSlot, last.layer)
                              ELSE Zeros(Len(last.hidden[1])))
        /\ \A t \in 2..Len(last.hidden) : last.shifted[t] = last.hidden[t - 1]
        /\ (Len(last.hidden) = 1 /\ last.before.present) =>
               IF last.sub = "attention"
               THEN AttentionPadded(last.hidden, last.before, last.layer)
                        = AttentionShortcut(last.before, last.layer)
               ELSE FeedForwardPadded(last.hidden, last.before, last.layer)
                        = FeedForwardShortcut(last.before, last.layer)

\* C3: after every invocation of a sublayer of layer i with a container
\* present, the sublayer's shift-cache slot of layer i holds hidden[T-1] of
\* this call, and the shifted sequence was built from the slot's old value.
C3_ShiftCacheOverwritten ==
    (last.sub # "none" /\ last.before.present) =>
        /\ last.error = ""
        /\ Slice(state, LastSlot, last.layer) = last.hidden[Len(last.hidden)]
        /\ ~IsError(last.shifted)
        /\ last.shifted[1] = Slice(last.before, LastSlot, last.layer)

\* the block's inputs, the container with every layer but layer_id as the
\* factory makes it
OnlyLayer(st, layer_id) ==
    [hidden |-> hidden_states,
     state |-> [st EXCEPT !.t = [k \in 1..5 |-> [l \in 1..NumLayers |->
                   IF l = layer_id + 1 THEN st.t[k][l] ELSE NewState.t[k][l]]]]]

\* C4: block i reads and writes only the layer-i slice of each of the five
\* state tensors: the slices of every other layer are left as they were, what
\* the block computes does not depend on them, and the channel-mixing
\* sublayer leaves wkv_num, wkv_den and wkv_max as they were in every layer.
C4_BlockTouchesOwnLayer ==
    [][(pc \in {"attention", "feed_forward"} /\ state.present) =>
          /\ state'.present
          /\ \A j \in 0..(NumLayers - 1), k \in 0..4 :
                 j # idx => Slice(state', k, j) = Slice(state, k, j)
          /\ pc = "feed_forward" =>
                 \A j \in 0..(NumLayers - 1), k \in 2..4 :
                     Slice(state', k, j) = Slice(state, k, j)
          /\ pc = "attention" =>
                 \E own \in {OnlyLayer(state, idx)} :
                     \E b \in {BlockAttention(own.hidden, own.state, use_cache, idx)} :
                         /\ b.attention = last'.out
                         /\ \A k \in 0..4 : Slice(b.state, k, idx) = Slice(state', k, idx)
          /\ pc = "feed_forward" =>
                 \E own \in {OnlyLayer(state, idx)} :
                     \E b \in {BlockFeedForward(own.hidden, own.state, idx)} :
                         /\ b.hidden = block_out'
                         /\ \A k \in 0..4 : Slice(b.state, k, idx) = Slice(state', k, idx)
      ]_vars

\* block 1 has run its attention on a container whose layer 0 already holds
\* history, and has changed its own slices
C4_Witness ==
    /\ last.sub = "attention"
    /\ last.layer = 1
    /\ last.error = ""
    /\ last.before.present
    /\ \E k \in 0..4 : Slice(last.before, k, 0) # Slice(NewState, k, 0)
    /\ \E k \in 1..4 : Slice(state, k, 1) # Slice(last.before, k, 1)

\* C5: the forward creates a container exactly when caching is requested
\* and no state was supplied; the new container has five tensors indexed by
\* layer, all zero but the fifth, which holds the negative sentinel in every
\* entry; a supplied state is never replaced and is the state returned.
C5_StateFactory ==
    InCall =>
        /\ (pc = "attention" /\ idx = 0) =>
               /\ state.present <=> (supplied \/ use_cache)
               /\ (~supplied /\ use_cache) =>
                      /\ DOMAIN state.t = 1..5
                      /\ \A k \in 1..5 :
                             /\ DOMAIN state.t[k] = 1..NumLayers
                             /\ \A l \in 1..NumLayers :
                                    /\ DOMAIN state.t[k][l] = 1..Channels
                                    /\ \A c \in 1..Channels :
                                           state.t[k][l][c] = (IF k = 5 THEN 0 - 20000 ELSE 0)
               /\ created <=> (~supplied /\ use_cache)
        /\ supplied => (~created /\ state.present /\ state = caller_state)
        /\ (pc = "attention" /\ idx = 0 /\ supplied) => state # NewState
        /\ pc = "returned" => caller_state = state

\* a caller that holds a used container calls without passing it and with
\* caching requested: a new container has just been made
C5_Witness ==
    /\ pc = "attention"
    /\ idx = 0
    /\ created
    /\ caller_state.present
    /\ caller_state # NewState
    /\ state = NewState

\* C6: the attention sublayer called with no container gives the outputs it
\* gives with a freshly created container.
C6_NoStateEqualsFreshState ==
    (last.sub = "attention" /\ ~IsError(last.hidden)) =>
        \E bare \in {SelfAttention(last.hidden, None, FALSE, last.layer)},
           fresh \in {SelfAttention(last.hidden, NewState, TRUE, last.layer)} :
            /\ bare.error = ""
            /\ fresh.error = ""
            /\ bare.out = fresh.out

\* C7: with rescale interval r > 0, after every block whose 1-indexed number
\* is a multiple of r the hidden sequence passed on is exactly half of what
\* the block produced; after every other block it is passed on unchanged.
C7_RescaleHalves ==
    (last.sub = "feed_forward" /\ last.error = "") =>
        IF config.rescale_every > 0 /\ (last.layer + 1) % config.rescale_every = 0
        THEN hidden_states = Map(LAMBDA x : FDiv(x, 2 * One), block_out)
        ELSE hidden_states = block_out

C10_AsStated ==
    \A i \in DOMAIN exp_args : exp_args[i] <= 0

\* C10 amended: each of the four exponentials of a timestep of the scan
\* (lines 58, 59, 65, 66) has an argument <= 0 and a result <= 1; the one
\* exponential outside the loop, exp(time_decay) of line 51, takes the raw
\* time_decay parameter, which may be positive.
C10_ScanExponentialsNonPositive ==
    current_index > 0 =>
        /\ Len(exp_args) = 4
        /\ \A i \in DOMAIN exp_args : exp_args[i] <= 0 /\ exp(exp_args[i]) <= One

\* a timestep on top of a prior accumulator in which the carried history
\* was scaled down both for the output (line 58) and for the new
\* accumulator (line 65)
C10_Witness ==
    /\ kpc = "scan"
    /\ layer_state.present
    /\ layer_state.den > 0
    /\ current_index > 0
    /\ exp_args[1] < 0
    /\ exp_args[3] < 0

\* ------------------------------------------- closed forms of the recurrence
\* The weighted averages the scan is compared with are evaluated exactly, as
\* a pair [n, d] of integers standing for n / d.  Log-weights are fixed-point
\* numbers that are whole multiples of One (as all keys, time_first and
\* decay factors of SpecKernel are).
RECURSIVE ExactSum(_, _)
ExactSum(f, n) == IF n = 0 THEN 0 ELSE ExactSum(f, n - 1) + f[n]

RECURSIVE MinOf(_, _)
MinOf(f, n) == IF n = 1 THEN f[1] ELSE IF f[n] < MinOf(f, n - 1) THEN f[n] ELSE MinOf(f, n - 1)

RECURSIVE MaxOf(_, _)
MaxOf(f, n) == IF n = 1 THEN f[1] ELSE IF f[n] > MaxOf(f, n - 1) THEN f[n] ELSE MaxOf(f, n - 1)

\* the average of vs[1..t] in which vs[i] has weight 2^(lw[i] / One)
WeightedAverage(lw, vs, t) ==
    LET m == MinOf(lw, t)
        w == [i \in 1..t |-> Pow2((lw[i] - m) \div One)]
    IN  [n |-> ExactSum([i \in 1..t |-> w[i] * vs[i]], t), d |-> ExactSum(w, t)]

\* the log-weight of timestep i in output[t] when every timestep counts
\* with key[i] + time_first and nothing else
PlainLogWeights(tf, ks, t) == [i \in 1..t |-> ks[i] + tf]

\* the log-weight of timestep i in output[t] by lines 57-69: time_first for
\* the current timestep only, one decay per step from i + 1 to t - 1
DecayedLogWeights(decay, tf, ks, t) ==
    [i \in 1..t |-> IF i = t THEN ks[i] + tf ELSE ks[i] + (t - 1 - i) * decay]

\* the log-weight of timestep i in the accumulator after t timesteps
StateLogWeights(decay, ks, t) == [i \in 1..t |-> ks[i] + (t - i) * decay]

\* how far an output of the fixed-point scan may lie from the exact average
Tolerance == One

Close(x, avg) ==
    /\ IsFinite(x)
    /\ x * avg.d - avg.n <= Tolerance * avg.d
    /\ avg.n - x * avg.d <= Tolerance * avg.d

\* a call of the kernel that started from no state
NoPriorState == kpc \in {"scan", "returned"} /\ ~layer_state.present

\* C11 as stated: with time_decay = 0 and no prior state, every output[t] is
\* the average of value[0..t] with weights exp(key[i] + time_first), older
\* timesteps not being down-weighted.
C11_AsStated ==
    (NoPriorState /\ time_decay = 0) =>
        \A t \in DOMAIN output :
            Close(output[t], WeightedAverage(PlainLogWeights(time_first, key, t), value, t))

\* C11 amended: with time_decay = 0 and no prior state the per-step factor
\* is -exp(0) = -1, so every output[t] is the average of value[0..t] in which
\* value[t] has weight exp(key[t] + time_first) and every older value[i] has
\* weight exp(key[i] - (t - 1 - i)): older timesteps lose a factor e per
\* step and do not get time_first; the running maximum is the largest
\* decayed key.
C11_DecayOneAverage ==
    (NoPriorState /\ time_decay = 0) =>
        /\ neg_decay = 0 - One
        /\ current_index > 0 =>
               max_state = MaxOf(StateLogWeights(0 - One, key, current_index), current_index)
        /\ \A t \in DOMAIN output :
               Close(output[t],
                     WeightedAverage(DecayedLogWeights(0 - One, time_first, key, t), value, t))

\* three timesteps scanned with time_decay = 0 and no prior state, the last
\* output lying away from the plain average of the three values
C11_Witness ==
    /\ NoPriorState
    /\ time_decay = 0
    /\ current_index = 3
    /\ ~Close(output[3], WeightedAverage(PlainLogWeights(time_first, key, 3), value, 3))

\* a call of the kernel whose time_decay is so low that exp(time_decay) is
\* its limit value 0
AtDecayLimit == kpc \in {"scan", "returned"} /\ exp(time_decay) = 0

\* a call that started from no accumulated history: no state, or the slice
\* of a container fresh from the model forward
NoHistory == ~layer_state.present \/ layer_state = FreshLayerState

\* C12 as stated: with the per-step factor -exp(time_decay) at its limit
\* value for time_decay -> -infinity, every output[t] equals value[t].
C12_AsStated ==
    AtDecayLimit => \A t \in DOMAIN output : output[t] = value[t]

\* C12 amended: for time_decay -> -infinity the per-step factor
\* -exp(time_decay) is 0 and the kernel forgets nothing: called with no
\* accumulated history, every output[t] is the average of value[0..t] in
\* which value[t] has weight exp(key[t] + time_first) and every older
\* value[i] has its undecayed weight exp(key[i]); the running maximum is the
\* largest key seen; only output[0] equals its value exactly.
C12_LimitKeepsHistory ==
    AtDecayLimit =>
        /\ neg_decay = 0
        /\ NoHistory =>
            /\ current_index > 0 =>
                   max_state = MaxOf(StateLogWeights(0, key, current_index), current_index)
            /\ \A t \in DOMAIN output :
                   Close(output[t],
                         WeightedAverage(DecayedLogWeights(0, time_first, key, t), value, t))
            /\ output # <<>> => output[1] = value[1]

\* three timesteps scanned at the limit with no prior state, the last key
\* below an earlier one and the last output not the last value
C12_Witness ==
    /\ AtDecayLimit
    /\ ~layer_state.present
    /\ current_index = 3
    /\ key[3] < key[1]
    /\ output[3] # value[3]

\* C13: in a call through the model forward, whatever use_cache (True,
\* False, None), deterministic and the state argument are, a container is
\* present exactly when caching is on or a state was supplied; the kernel,
\* called with return_state = use_cache and the layer slices of the
\* container, hands back a triple exactly when the container is present; so
\* the write-back of lines 201-204 never meets a missing container (no
\* TypeError), and with no container and no caching nothing is written.
C13_TripleOnlyWithContainer ==
    /\ error # "TypeError"
    /\ InCall => (state.present <=> (use_cache \/ supplied))
    /\ pc = "attention" =>
           \E r \in {rwkv_linear_attention(TimeDecay(idx), TimeFirst(idx),
                                           hidden_states, hidden_states,
                                           LayerState(state, idx), use_cache)} :
               /\ r.state.present <=> state.present
               /\ ~state.present => ~use_cache
    /\ last.sub = "attention" =>
           /\ last.kernel_state.present => last.before.present
           /\ (~last.before.present /\ ~use_cache) =>
                  (~state.present /\ ~last.kernel_state.present)

\* a call with caching off that was handed a container: the kernel returned
\* a triple and the attention sublayer wrote it into the container
C13_Witness ==
    /\ last.sub = "attention"
    /\ last.error = ""
    /\ supplied
    /\ ~use_cache
    /\ last.kernel_state.present
    /\ last.before.present
    /\ Slice(state, 3, last.layer) = last.kernel_state.den
    /\ Slice(state, 3, last.layer) # Slice(last.before, 3, last.layer)

====
